---- MODULE Spec2Model ----
(***************************************************************************)
(* texar.tf.modules.embedders.embedder_base.EmbedderBase as a state        *)
(* machine: one embedder object, the two protected operations subclasses   *)
(* call on it (_init_parameterized_embedding, _get_dropout_layer) and the  *)
(* num_embeds property.                                                    *)
(*                                                                         *)
(* Tensors are modelled by their static shape (a sequence of sizes); the   *)
(* numerical content never reaches this class.  A variable is its identity *)
(* and its shape.  Floats (dropout_rate) are modelled in tenths.  Python's None is the value None where an integer   *)
(* could stand, and the record NoneT where a tensor or a list could stand. *)
(* An int-or-list value (hparams.dim, self._dim) is PyInt(x) or PyList(s). *)
(***************************************************************************)
EXTENDS Integers, Sequences, FiniteSets

VARIABLES
    _num_embeds,          \* self._num_embeds: None or an integer
    attrs,                \* attributes created after __init__ (the object's __dict__)
    _embedding,           \* self._embedding: the table variable   (meaningful when in attrs)
    _dim,                 \* self._dim: PyInt(d) or PyList(s)   (meaningful when in attrs)
    _dim_rank,            \* self._dim_rank                     (meaningful when in attrs)
    trainable_variables,  \* ModuleBase._trainable_variables: the variables registered
    frame,                \* the call in progress: arguments, locals and outcome of the
                          \* method just executed; gone once the method has returned
    ctor_num_embeds,      \* history: the num_embeds argument __init__ was given
    init_calls            \* history: calls of _init_parameterized_embedding so far

vars == <<_num_embeds, attrs, _embedding, _dim, _dim_rank, trainable_variables,
          frame, ctor_num_embeds, init_calls>>

self == <<_num_embeds, attrs, _embedding, _dim, _dim_rank, trainable_variables>>

----------------------------------------------------------------------------
(* Bounds of the model. *)

MaxInitCalls == 2    \* calls of _init_parameterized_embedding on one object
MaxDimRank == 2      \* largest number of per-item dimensions of a table
MaxInputRank == 1    \* largest rank of a dropout_input tensor

----------------------------------------------------------------------------
(* Python values. *)

None == -100

PyInt(x) == [scalar |-> TRUE, items |-> <<x>>]

PyList(s) == [scalar |-> FALSE, items |-> s]

NoneT == [isNone |-> TRUE, shape |-> <<>>]

NoneL == [isNone |-> TRUE, items |-> <<>>]

List(s) == [isNone |-> FALSE, items |-> s]

Tensor(s) == [isNone |-> FALSE, shape |-> s]

\* s[:k] of Python: the first k elements, all of s when k exceeds len(s) or is
\* None, and all but the last -k when k is negative.
Prefix(s, k) ==
    LET n == IF k = None THEN Len(s)
             ELSE IF k < 0 THEN (IF Len(s) + k < 0 THEN 0 ELSE Len(s) + k)
             ELSE IF k > Len(s) THEN Len(s)
             ELSE k
    IN  SubSeq(s, 1, n)

\* [x] * k of Python: k copies of x, the empty list when k <= 0.
Repeat(x, k) == [i \in 1..k |-> x]

----------------------------------------------------------------------------
(* The inputs the operations are given.  The class never looks at a size,  *)
(* only at positions, so one size per position is enough: the per-item     *)
(* sizes are 2, 3, ... and the sizes of a dropout input 5, 6, ...  Item    *)
(* counts are 7 or 8, and a constructor is given 9 or nothing.             *)

DimList(k) == [i \in 1..k |-> i + 1]

DimLists == {DimList(k) : k \in 0..MaxDimRank}

CtorNumEmbeds == {None, 9}

EmbedCounts == {None, 7, 8}

TableShapes == {<<n>> \o l : n \in EmbedCounts \ {None}, l \in DimLists}

InitValues == {NoneT} \cup {Tensor(s) : s \in TableShapes}

InitHParams ==
    [trainable : BOOLEAN,
     dim : {PyInt(DimList(1)[1])} \cup {PyList(l) : l \in DimLists}]

Strategies == {"element", "item", "item_type", "bogus"}

NoStrategy == "<None>"

DropoutRates == {-1, 0, 3}

DropoutHParams == [dropout_rate : DropoutRates, dropout_strategy : Strategies]

InputShape(r) == [i \in 1..r |-> i + 4]

DropoutInputs == {NoneT} \cup {Tensor(InputShape(r)) : r \in 0..MaxInputRank}

IdsRanks == {None} \cup (-1..(MaxInputRank + 1))

----------------------------------------------------------------------------
(* Collaborators. *)

\* embedder_utils.get_embedding: a new variable, of shape [num_embeds] + dim
\* when no initial value is given (a scalar dim is wrapped into a list), and
\* holding init_value otherwise.
get_embedding(hparams, init_value, num_embeds, fresh) ==
    [id |-> fresh,
     shape |-> IF init_value.isNone
               THEN <<num_embeds>> \o hparams.dim.items
               ELSE init_value.shape]

\* get_embedding can build a table: it has an initial value or an item count.
CanBuild(init_value, num_embeds) ==
    ~init_value.isNone \/ num_embeds # None

\* texar.tf.utils.shapes.shape_list: the list of the tensor's dimensions.
shape_list(x) == x.shape

\* ModuleBase._add_trainable_variable: appends the variable to the module's list
\* (kept here as the list of the variables' identities).
_add_trainable_variable(tv, variable) == Append(tv, variable.id)

----------------------------------------------------------------------------
(* The frames. *)

NoFrame == [op |-> "none"]

Idle == frame = NoFrame

InitAttrs == {"_embedding", "_dim", "_dim_rank"}

Init ==
    /\ ctor_num_embeds \in CtorNumEmbeds
    /\ _num_embeds = ctor_num_embeds
    /\ attrs = {}
    /\ _embedding = [id |-> 0, shape |-> <<>>]
    /\ _dim = PyList(<<>>)
    /\ _dim_rank = 0
    /\ trainable_variables = <<>>
    /\ frame = NoFrame
    /\ init_calls = 0

----------------------------------------------------------------------------
(* _init_parameterized_embedding *)

\* if hparams.trainable: self._add_trainable_variable(self._embedding)
Registered_unconditionally(tv, embedding, hparams) ==
    _add_trainable_variable(tv, embedding)

Registered(tv, embedding, hparams) ==
    IF hparams.trainable THEN _add_trainable_variable(tv, embedding) ELSE tv

\* self._dim = shape_list(self._embedding)[1:], replaced by its only element
\* when it has exactly one.
Dim_never_unwrapped(embedding) ==
    PyList(Tail(shape_list(embedding)))

Dim(embedding) ==
    LET d == Tail(shape_list(embedding))
    IN  IF Len(d) = 1 THEN PyInt(d[1]) ELSE PyList(d)

\* self._dim_rank = len(self._dim), taken before _dim is unwrapped.
DimRank(embedding) == Len(Tail(shape_list(embedding)))

_init_parameterized_embedding_trusts_argument(init_value, num_embeds, hparams) ==
    /\ Idle
    /\ init_calls < MaxInitCalls
    /\ CanBuild(init_value, num_embeds)
    /\ LET embedding == get_embedding(hparams, init_value, num_embeds, init_calls + 1)
       IN  /\ _embedding' = embedding
           /\ trainable_variables' = Registered(trainable_variables, embedding, hparams)
           /\ _num_embeds' = IF num_embeds = None
                             THEN shape_list(embedding)[1]
                             ELSE num_embeds
           /\ _dim' = Dim(embedding)
           /\ _dim_rank' = DimRank(embedding)
    /\ attrs' = attrs \cup InitAttrs
    /\ frame' = [op |-> "_init_parameterized_embedding",
                 init_value |-> init_value,
                 num_embeds |-> num_embeds,
                 hparams |-> hparams,
                 raised |-> "none"]
    /\ init_calls' = init_calls + 1
    /\ UNCHANGED ctor_num_embeds

_init_parameterized_embedding(init_value, num_embeds, hparams) ==
    /\ Idle
    /\ init_calls < MaxInitCalls
    /\ CanBuild(init_value, num_embeds)
    /\ LET embedding == get_embedding(hparams, init_value, num_embeds, init_calls + 1)
       IN  /\ _embedding' = embedding
           /\ trainable_variables' = Registered(trainable_variables, embedding, hparams)
           /\ _num_embeds' = shape_list(embedding)[1]
           /\ _dim' = Dim(embedding)
           /\ _dim_rank' = DimRank(embedding)
    /\ attrs' = attrs \cup InitAttrs
    /\ frame' = [op |-> "_init_parameterized_embedding",
                 init_value |-> init_value,
                 num_embeds |-> num_embeds,
                 hparams |-> hparams,
                 raised |-> "none"]
    /\ init_calls' = init_calls + 1
    /\ UNCHANGED ctor_num_embeds

----------------------------------------------------------------------------
(* _get_dropout_layer *)

\* st = dropout_strategy; st = hparams.dropout_strategy if st is None else st
Strategy_prefers_hparams(hparams, dropout_strategy) ==
    hparams.dropout_strategy

Strategy(hparams, dropout_strategy) ==
    IF dropout_strategy = NoStrategy
    THEN hparams.dropout_strategy
    ELSE dropout_strategy

\* if hparams.dropout_rate > 0.:
DropoutEnabled_at_zero(hparams) == hparams.dropout_rate >= 0

DropoutEnabled(hparams) == hparams.dropout_rate > 0

\* The if / elif / elif / else chain on st.
Branch_falls_back_to_element(st) ==
    IF st = "item" THEN "item"
    ELSE IF st = "item_type" THEN "item_type"
    ELSE "element"

Branch(st) ==
    IF st = "element" THEN "element"
    ELSE IF st = "item" THEN "item"
    ELSE IF st = "item_type" THEN "item_type"
    ELSE "else"

\* shape_list(dropout_input)[:ids_rank] + [1] * self._dim_rank
ItemNoiseShape_single_one(dropout_input, ids_rank, dim_rank) ==
    Prefix(shape_list(dropout_input), ids_rank) \o <<1>>

ItemNoiseShape(dropout_input, ids_rank, dim_rank) ==
    Prefix(shape_list(dropout_input), ids_rank) \o Repeat(1, dim_rank)

\* [None] + [1] * self._dim_rank
ItemTypeNoiseShape_without_leading_axis(dim_rank) ==
    Repeat(1, dim_rank)

ItemTypeNoiseShape(dim_rank) ==
    <<None>> \o Repeat(1, dim_rank)

\* tf.layers.Dropout(rate=hparams.dropout_rate, noise_shape=noise_shape)
Dropout_keep_prob(rate, noise_shape) ==
    [isNone |-> FALSE, rate |-> 10 - rate, noise_shape |-> noise_shape]

Dropout(rate, noise_shape) ==
    [isNone |-> FALSE, rate |-> rate, noise_shape |-> noise_shape]

NoLayer == [isNone |-> TRUE]

\* self._dim_rank raises AttributeError while the attribute does not exist.
AttributeMissing_defaulted(has_attribute) == FALSE

AttributeMissing(has_attribute) == ~has_attribute

Returns(layer) == [raised |-> "none", dropout_layer |-> layer]

Raises(exception) == [raised |-> exception, dropout_layer |-> NoLayer]

\* The body of _get_dropout_layer on an object whose _dim_rank attribute exists
\* (has_dim_rank) with value dim_rank: what it raises, or the layer it returns.
DropoutLayer(has_dim_rank, dim_rank, hparams, ids_rank, dropout_input, st) ==
    IF ~DropoutEnabled(hparams) THEN Returns(NoLayer)
    ELSE CASE Branch(st) = "element" ->
                Returns(Dropout(hparams.dropout_rate, NoneL))
           [] Branch(st) = "item" ->
                IF dropout_input.isNone \/ ids_rank = None
                THEN Raises("AssertionError")
                ELSE IF AttributeMissing(has_dim_rank)
                THEN Raises("AttributeError")
                ELSE Returns(Dropout(hparams.dropout_rate,
                        List(ItemNoiseShape(dropout_input, ids_rank, dim_rank))))
           [] Branch(st) = "item_type" ->
                IF AttributeMissing(has_dim_rank)
                THEN Raises("AttributeError")
                ELSE Returns(Dropout(hparams.dropout_rate,
                        List(ItemTypeNoiseShape(dim_rank))))
           [] OTHER -> Raises("ValueError")

_get_dropout_layer(hparams, ids_rank, dropout_input, dropout_strategy) ==
    /\ Idle
    /\ LET st == Strategy(hparams, dropout_strategy)
           out == DropoutLayer("_dim_rank" \in attrs, _dim_rank,
                               hparams, ids_rank, dropout_input, st)
       IN  frame' = [op |-> "_get_dropout_layer",
                     hparams |-> hparams,
                     ids_rank |-> ids_rank,
                     dropout_input |-> dropout_input,
                     dropout_strategy |-> dropout_strategy,
                     st |-> st,
                     raised |-> out.raised,
                     dropout_layer |-> out.dropout_layer]
    /\ UNCHANGED <<self, ctor_num_embeds, init_calls>>

----------------------------------------------------------------------------
(* The num_embeds property. *)

num_embeds == _num_embeds

----------------------------------------------------------------------------

\* The method returns (or its exception propagates): its frame is gone.
Return ==
    /\ ~Idle
    /\ frame' = NoFrame
    /\ UNCHANGED <<self, ctor_num_embeds, init_calls>>

Next ==
    \/ \E init_value \in InitValues, n \in EmbedCounts, hparams \in InitHParams :
          _init_parameterized_embedding(init_value, n, hparams)
    \/ \E hparams \in DropoutHParams, ids_rank \in IdsRanks,
          dropout_input \in DropoutInputs,
          dropout_strategy \in Strategies \cup {NoStrategy} :
          _get_dropout_layer(hparams, ids_rank, dropout_input, dropout_strategy)
    \/ Return

Spec == Init /\ [][Next]_vars

----------------------------------------------------------------------------
(* The claims.  A claim about _get_dropout_layer is stated on the frame of *)
(* the call: its arguments, and what the call raised or returned.          *)

InitFrame == frame.op = "_init_parameterized_embedding"

DropoutFrame == frame.op = "_get_dropout_layer"

Initialized == init_calls > 0

KnownStrategies == {"element", "item", "item_type"}

ReturnedLayer == frame.raised = "none" /\ ~frame.dropout_layer.isNone

NoiseShape == frame.dropout_layer.noise_shape

\* What the branch of a strategy reads: 'item' reads dropout_input, ids_rank
\* and self._dim_rank, 'item_type' reads self._dim_rank, 'element' nothing.
StrategyInputsGiven ==
    /\ frame.st = "item" =>
          /\ ~frame.dropout_input.isNone
          /\ frame.ids_rank # None
          /\ Initialized
    /\ frame.st = "item_type" => Initialized

\* The case of C3: dropout on, strategy 'item', both inputs given, embedding
\* initialized.
ItemCase ==
    /\ DropoutFrame
    /\ frame.hparams.dropout_rate > 0
    /\ frame.st = "item"
    /\ ~frame.dropout_input.isNone
    /\ frame.ids_rank # None
    /\ Initialized

\* The case of C4: dropout on, strategy 'item_type', embedding initialized.
ItemTypeCase ==
    /\ DropoutFrame
    /\ frame.hparams.dropout_rate > 0
    /\ frame.st = "item_type"
    /\ Initialized

\* C1: num_embeds is the constructor's value (None if omitted) until
\* _init_parameterized_embedding is called, and from then on the first
\* dimension of the table the most recent call built, whatever the constructor
\* was given and whatever num_embeds argument that call was given.
C1_NumEmbeds ==
    /\ ~Initialized => num_embeds = ctor_num_embeds
    /\ Initialized =>
          /\ _embedding.id = init_calls
          /\ num_embeds = _embedding.shape[1]
    /\ InitFrame /\ ~frame.init_value.isNone =>
          num_embeds = frame.init_value.shape[1]
    /\ InitFrame /\ frame.init_value.isNone =>
          num_embeds = frame.num_embeds

\* A second call was given an initial value whose first dimension differs from
\* both its num_embeds argument and the constructor's value.
C1_Witness ==
    /\ InitFrame
    /\ init_calls = 2
    /\ ~frame.init_value.isNone
    /\ frame.num_embeds # None
    /\ frame.num_embeds # num_embeds
    /\ ctor_num_embeds # None
    /\ ctor_num_embeds # num_embeds

\* C2: _get_dropout_layer returns a layer exactly when dropout_rate > 0, the
\* strategy is one of the three and what that strategy's branch reads is
\* there; the layer's rate is hparams.dropout_rate, and the 'element' layer has
\* no noise shape.
C2_LayerIff ==
    DropoutFrame =>
        /\ ReturnedLayer <=>
              /\ frame.hparams.dropout_rate > 0
              /\ frame.st \in KnownStrategies
              /\ StrategyInputsGiven
        /\ ReturnedLayer => frame.dropout_layer.rate = frame.hparams.dropout_rate
        /\ ReturnedLayer /\ frame.st = "element" => NoiseShape.isNone

C2_Witness ==
    /\ DropoutFrame
    /\ ReturnedLayer
    /\ frame.st = "element"
    /\ frame.dropout_layer.rate = 3
    /\ NoiseShape.isNone
    /\ ~Initialized

Kept(rank, ids_rank) ==
    IF ids_rank > rank THEN rank
    ELSE IF ids_rank >= 0 THEN ids_rank
    ELSE IF rank + ids_rank > 0 THEN rank + ids_rank
    ELSE 0

C4_ItemTypeNoiseShape ==
    ItemTypeCase =>
        /\ ReturnedLayer
        /\ ~NoiseShape.isNone
        /\ Len(NoiseShape.items) = 1 + _dim_rank
        /\ NoiseShape.items[1] = None
        /\ \A i \in 2..Len(NoiseShape.items) : NoiseShape.items[i] = 1

C4_Witness ==
    /\ ItemTypeCase
    /\ frame.dropout_input.isNone
    /\ frame.ids_rank = None
    /\ _dim_rank = 2
    /\ NoiseShape.items = <<None, 1, 1>>

\* C5 as stated: a strategy outside the three always raises ValueError and
\* builds no layer, and ValueError is the only error of the class.
C5_Original ==
    /\ DropoutFrame /\ frame.st \notin KnownStrategies =>
          /\ frame.raised = "ValueError"
          /\ frame.dropout_layer.isNone
    /\ ~Idle => frame.raised \in {"none", "ValueError"}

\* C5, amended: _get_dropout_layer raises ValueError exactly when
\* dropout_rate > 0 and the strategy is outside the three, and then builds no
\* layer; its other errors are the AssertionError of the 'item' branch when
\* dropout_input or ids_rank is missing, and the AttributeError of the 'item'
\* and 'item_type' branches before the embedding is initialized.
C5_ValueError ==
    DropoutFrame =>
        /\ frame.raised = "ValueError" <=>
              /\ frame.hparams.dropout_rate > 0
              /\ frame.st \notin KnownStrategies
        /\ frame.raised # "none" => frame.dropout_layer.isNone
        /\ frame.raised \in {"none", "ValueError", "AssertionError", "AttributeError"}
        /\ frame.raised = "AssertionError" =>
              /\ frame.st = "item"
              /\ frame.dropout_input.isNone \/ frame.ids_rank = None
        /\ frame.raised = "AttributeError" =>
              /\ frame.st \in {"item", "item_type"}
              /\ ~Initialized

C5_Witness ==
    /\ DropoutFrame
    /\ frame.st = "bogus"
    /\ frame.hparams.dropout_rate > 0
    /\ frame.raised = "ValueError"
    /\ frame.dropout_layer.isNone

\* C6: after _init_parameterized_embedding on a table of shape [n, d1, ..., dk],
\* _dim_rank is k, and _dim is the integer d1 when k = 1 and the list
\* [d1, ..., dk] otherwise (empty for a table of rank 1).
C6_DimAndRank ==
    Initialized =>
        LET shape == _embedding.shape
            k == Len(shape) - 1
        IN  /\ {"_dim", "_dim_rank"} \subseteq attrs
            /\ _dim_rank = k
            /\ _dim.scalar <=> k = 1
            /\ Len(_dim.items) = k
            /\ \A i \in 1..k : _dim.items[i] = shape[i + 1]

\* A table built from the list-valued hparams.dim [2]: _dim is the integer 2.
C6_Witness ==
    /\ InitFrame
    /\ frame.init_value.isNone
    /\ frame.hparams.dim = PyList(<<2>>)
    /\ _dim = PyInt(2)
    /\ _dim_rank = 1

\* C7: _init_parameterized_embedding adds the new table to the trainable
\* variables exactly when hparams.trainable; otherwise it leaves them as they
\* were, and sets _embedding, _num_embeds, _dim and _dim_rank all the same.
C7_TrainableIff ==
    [][(Idle /\ InitFrame') =>
          /\ _embedding'.id \notin {trainable_variables[i] :
                                       i \in 1..Len(trainable_variables)}
          /\ frame'.hparams.trainable =>
                trainable_variables' = Append(trainable_variables, _embedding'.id)
          /\ ~frame'.hparams.trainable =>
                trainable_variables' = trainable_variables
          /\ InitAttrs \subseteq attrs'
          /\ _embedding'.id = init_calls'
          /\ _num_embeds' = _embedding'.shape[1]
          /\ _dim_rank' = Len(_embedding'.shape) - 1
          /\ _dim'.items = Tail(_embedding'.shape)]_vars

\* A second, non-trainable table beside a registered first one.
C7_Witness ==
    /\ InitFrame
    /\ ~frame.hparams.trainable
    /\ init_calls = 2
    /\ trainable_variables = <<1>>
    /\ _embedding.id = 2
    /\ InitAttrs \subseteq attrs

\* C8: with dropout_rate <= 0, _get_dropout_layer returns None and raises
\* nothing, whatever the strategy and whatever inputs are missing.
C8_DisabledReturnsNone ==
    DropoutFrame /\ frame.hparams.dropout_rate <= 0 =>
        /\ frame.raised = "none"
        /\ frame.dropout_layer.isNone

C8_Witness ==
    /\ DropoutFrame
    /\ frame.hparams.dropout_rate = 0
    /\ frame.st = "bogus"
    /\ frame.dropout_input.isNone
    /\ frame.ids_rank = None
    /\ frame.raised = "none"
    /\ frame.dropout_layer.isNone

\* C9: the strategy used is the dropout_strategy argument unless that is None,
\* and hparams.dropout_strategy only then; a valid argument beside an invalid
\* hparams.dropout_strategy raises no ValueError.
C9_ArgumentOverrides ==
    DropoutFrame =>
        /\ frame.dropout_strategy # NoStrategy => frame.st = frame.dropout_strategy
        /\ frame.dropout_strategy = NoStrategy => frame.st = frame.hparams.dropout_strategy
        /\ frame.hparams.dropout_rate > 0 =>
              (frame.raised = "ValueError" <=>
                  IF frame.dropout_strategy = NoStrategy
                  THEN frame.hparams.dropout_strategy \notin KnownStrategies
                  ELSE frame.dropout_strategy \notin KnownStrategies)
        /\ frame.dropout_strategy = "element" => frame.raised = "none"

C9_Witness ==
    /\ DropoutFrame
    /\ frame.dropout_strategy = "element"
    /\ frame.hparams.dropout_strategy = "bogus"
    /\ frame.hparams.dropout_rate > 0
    /\ ReturnedLayer

\* C10: with dropout_rate > 0, 'item' and 'item_type' succeed only after
\* _init_parameterized_embedding and fail before it, 'element' succeeds in any
\* state; and _get_dropout_layer changes none of _num_embeds, _embedding, _dim
\* and _dim_rank.
C10_Ordering ==
    [][(Idle /\ DropoutFrame') =>
          /\ UNCHANGED <<_num_embeds, _embedding, _dim, _dim_rank, attrs>>
          /\ frame'.hparams.dropout_rate > 0 =>
                /\ frame'.st \in {"item", "item_type"} /\ init_calls = 0 =>
                      frame'.raised # "none"
                /\ frame'.st \in {"item", "item_type"} /\ frame'.raised = "none" =>
                      init_calls > 0 /\ "_dim_rank" \in attrs
                /\ frame'.st = "element" =>
                      frame'.raised = "none" /\ ~frame'.dropout_layer.isNone]_vars

\* 'item_type' before initialization: AttributeError.
C10_Witness ==
    /\ DropoutFrame
    /\ frame.hparams.dropout_rate > 0
    /\ frame.st = "item_type"
    /\ ~Initialized
    /\ frame.raised = "AttributeError"

====
